---- MODULE Spec2Model ----
(***************************************************************************)
(* NetworkMockingUtils (src/unnamed/part_002, lines 520-1008): the rule    *)
(* registry, the per-rule request counters, the route handler installed by *)
(* addMockRule, the response it gives to route.fulfill, the presets built  *)
(* on addMockRule, the polling waiter waitForRequests, and the scenario's  *)
(* After hook (src/unnamed/part_007, lines 650-662).                       *)
(*                                                                         *)
(* The page's router (Playwright's page.route / page.unroute /             *)
(* route.continue / route.fulfill) is the external collaborator: a list of *)
(* installed handlers, newest first; a request is handed to the newest     *)
(* handler whose pattern matches its URL, and route.continue() sends it to *)
(* the network without consulting older handlers.                          *)
(*                                                                         *)
(* Time is in milliseconds.  The test code is one sequential thread (every *)
(* call is awaited); route handlers run on the same event loop, each one   *)
(* without interruption up to its `await` on the artificial delay, and     *)
(* while the test code is suspended in an await of its own.                *)
(***************************************************************************)
EXTENDS Integers, Sequences, FiniteSets, TLC

VARIABLES
    mockRules,      \* Map<string, MockRule>: function id -> rule, DOMAIN = keys
    mockOrder,      \* insertion order of mockRules' keys (Map iteration order)
    requestCounts,  \* Map<string, number>: function id -> count, DOMAIN = keys
    routes,         \* page's installed route handlers, newest first
    requests,       \* every request the page issued so far, with its resolution
    now,            \* Date.now(), ms
    pc,             \* the test thread: "idle" | "removing" | "clearing"
                    \* | "waiting"
    waiter,         \* the pending waitForRequests call (its locals)
    waitResult,     \* outcome of the last waitForRequests call
    nextReg,        \* number of addMockRule calls so far (names each closure)
    since,          \* history: per id, the number of requests issued before
                    \* its counter was last created or deleted
    cleared,        \* history: clearAllMockRules has returned and addMockRule
                    \* has not been called since
    context,        \* the browser context hosting the page: "open" | "closed"
    removing,       \* the id whose removeMockRule call is suspended
    thread          \* the request whose handler is running on the JavaScript
                    \* thread, 0 when the event loop is idle

vars == <<mockRules, mockOrder, requestCounts, routes, requests, now, pc,
          waiter, waitResult, nextReg, since, cleared, context, removing,
          thread>>

----------------------------------------------------------------------------
(* Bounds of the exploration *)

MaxRegs == 2
MaxRequests == 2
MaxTicks == 2
MaxLoggers == 1

(* setTimeout(resolve, 100) in waitForRequests *)
PollInterval == 100

----------------------------------------------------------------------------
(* Values *)

(* an absent optional string (method, condition) and an absent optional    *)
(* number (times, delay, status)                                           *)
Undefined == "undefined"
NoNumber == -1

Ids == {"a", "b"}

UrlX == "/api/x"
UrlY == "/api/y"

(* the source of the pattern of mockEligibilityAPI, line 627 *)
UrlEligibility == "/api/eligibility/verify"

(* the sources of the patterns of the other fixed presets, lines 665,     *)
(* 696, 733, 792 and 840                                                   *)
UrlClaims == "/api/claims"
UrlPayments == "/api/payments"
UrlAuth == "/api/auth/login"
UrlProviders == "/api/providers/search"
UrlPlans == "/api/plans"

(* the ids the presets register under: lines 626, 664, 695, 732, 791, 839, *)
(* 861, 882, 959, 980                                                      *)
PresetIds == {"eligibility", "file-upload", "soap-A", "soap-B",
              "slow-" \o UrlX, "claims", "payment", "auth",
              "provider-search", "plan-info", "error-" \o UrlX}

(* rule.condition closures: the header test mockSOAPAPI builds, and a      *)
(* predicate that raises.                                                  *)
CondSoapA == "soapaction=A"
CondSoapB == "soapaction=B"
CondThrows == "throws"

(* response bodies: a string, a plain object, an object JSON.stringify     *)
(* rejects (circular reference).  `timestamp` is the value of the body's   *)
(* time-varying fields (timestamp, requestId, generated ids), NoNumber in  *)
(* a body that has none.                                                   *)
BodyString == [kind |-> "string", text |-> "<ok/>", timestamp |-> NoNumber]
BodyObject == [kind |-> "object", text |-> "success", timestamp |-> NoNumber]
BodyCyclic == [kind |-> "cyclic", text |-> "self", timestamp |-> NoNumber]

(* response.headers: absent, the empty object, and the headers mockSOAPAPI *)
(* gives (lines 968-970)                                                   *)
NoHeaders == [h \in {Undefined} |-> Undefined]
EmptyHeaders == [h \in {} |-> ""]
XmlHeaders == [h \in {"Content-Type"} |-> "text/xml; charset=utf-8"]

MkRule(url, method, times, condition, body, delay) ==
    [url |-> url, method |-> method, times |-> times, condition |-> condition,
     response |-> [status |-> NoNumber, headers |-> NoHeaders, body |-> body,
                   delay |-> delay]]

MkRequest(url, method, soapaction) ==
    [url |-> url, method |-> method, soapaction |-> soapaction]

NoRule == MkRule(Undefined, Undefined, NoNumber, Undefined, BodyString, NoNumber)

NoRequest == MkRequest(Undefined, Undefined, Undefined)

(* the pattern of enableRequestLogging, line 901 *)
GlobAll == "**/*"

(* a request no installed handler matched *)
NoHook == [url |-> Undefined, id |-> Undefined, rule |-> NoRule, reg |-> 0]

(* the handler enableRequestLogging installs, lines 901-921; it belongs to *)
(* no rule and no registration                                             *)
LoggingHook == [url |-> GlobAll, id |-> Undefined, rule |-> NoRule, reg |-> -1]

----------------------------------------------------------------------------
(* JavaScript and Playwright primitives the class relies on *)

(* truthiness of an optional number and of an optional string, as tested   *)
(* by `x && ...`, `x || d` and `if (x)`                                    *)
TruthyNumber(v) == v # NoNumber /\ v # 0

TruthyString(v) == v # Undefined /\ v # ""

(* String.prototype.toUpperCase on the method names used here *)
ToUpperCase(s) ==
    CASE s = "get" -> "GET"
      [] s = "post" -> "POST"
      [] s = "Post" -> "POST"
      [] OTHER -> s

(* Map.prototype.set / delete / get-with-default *)
MapSet(m, k, v) == [x \in DOMAIN m \cup {k} |-> IF x = k THEN v ELSE m[x]]

MapDelete(m, k) == [x \in DOMAIN m \ {k} |-> m[x]]

EmptyMap == [x \in {} |-> 0]

(* Array without the entries equal to k *)
Without(seq, k) == SelectSeq(seq, LAMBDA e : e # k)

(* does a route pattern match a request URL: the glob of line 901 matches  *)
(* every URL, any other pattern used here matches the URL equal to it      *)
Matches(pattern, url) == pattern = GlobAll \/ pattern = url

(* Playwright's comparison of the pattern given to unroute with an         *)
(* installed one: equal strings, or regular expressions of equal source    *)
UrlMatchesEqual(p1, p2) == p1 = p2

(* the handler the router hands a request to: the newest matching one *)
RECURSIVE FirstMatch(_, _)
FirstMatch(hooks, url) ==
    IF hooks = <<>> THEN NoHook
    ELSE IF Matches(Head(hooks).url, url) THEN Head(hooks)
    ELSE FirstMatch(Tail(hooks), url)

(* JSON.stringify raises a TypeError on a circular structure *)
StringifyThrows(body) == body.kind = "cyclic"

----------------------------------------------------------------------------
(* getRequestCount, lines 934-936 *)

getRequestCount(counts, id) == IF id \in DOMAIN counts THEN counts[id] ELSE 0

----------------------------------------------------------------------------
(* The route handler of addMockRule, lines 553-592 *)

(* line 557: rule.times && currentCount >= rule.times *)
BudgetExhausted(rule, currentCount) ==
    TruthyNumber(rule.times) /\ currentCount >= rule.times

MethodMismatchIgnored(rule, req) == FALSE

(* line 563: rule.method && request.method() !== rule.method.toUpperCase() *)
MethodMismatch(rule, req) ==
    TruthyString(rule.method) /\ req.method # ToUpperCase(rule.method)

(* the closure stored in rule.condition, applied to a request *)
ConditionThrows(rule, req) == rule.condition = CondThrows

ConditionValue(rule, req) ==
    CASE rule.condition = CondSoapA -> req.soapaction = "A"
      [] rule.condition = CondSoapB -> req.soapaction = "B"
      [] OTHER -> FALSE

ConditionRejectsInverted(rule, req) ==
    rule.condition # Undefined /\ ConditionValue(rule, req)

(* line 569: rule.condition && !rule.condition(request) *)
ConditionRejects(rule, req) ==
    rule.condition # Undefined /\ ~ConditionValue(rule, req)

(* line 584: rule.response.status || 200 *)
StatusAlways200(status) == 200

StatusOrDefault(status) == IF TruthyNumber(status) THEN status ELSE 200

(* line 585: rule.response.headers || {} *)
HeadersOrEmpty(headers) == IF headers = NoHeaders THEN EmptyHeaders ELSE headers

(* JSON.stringify of an object body: its fields in insertion order *)
JSONStringify(body) ==
    IF body.timestamp = NoNumber
    THEN "{\"message\":\"" \o body.text \o "\"}"
    ELSE "{\"message\":\"" \o body.text \o "\",\"timestamp\":"
            \o ToString(body.timestamp) \o "}"

(* lines 586-588: a string body as it is, any other body as its JSON text *)
BodyText(body) == IF body.kind = "string" THEN body.text ELSE JSONStringify(body)

(* lines 583-589: the argument the handler gives to route.fulfill *)
FulfillArgs(response) ==
    [status |-> StatusOrDefault(response.status),
     headers |-> HeadersOrEmpty(response.headers),
     body |-> BodyText(response.body)]

(* no response was given to the route *)
NoResponse == [status |-> 0, headers |-> EmptyHeaders, body |-> ""]

(* route.continue() of lines 558, 564 and 570 is called without overrides: *)
(* the request goes to the network with the fields the overrides leave     *)
NoOverrides == MkRequest(Undefined, Undefined, Undefined)

Continue(req, overrides) ==
    [url |-> IF overrides.url = Undefined THEN req.url ELSE overrides.url,
     method |-> IF overrides.method = Undefined THEN req.method
                                                ELSE overrides.method,
     soapaction |-> IF overrides.soapaction = Undefined THEN req.soapaction
                                                        ELSE overrides.soapaction]

(* lines 583-589: the argument of route.fulfill is built, then the route   *)
(* is fulfilled; building it raises when the body cannot be serialized     *)
FulfillOutcome(rule) ==
    IF rule.response.body.kind # "string" /\ StringifyThrows(rule.response.body)
    THEN "fulfill-threw"
    ELSE "fulfill"

(* what the handler does with a request up to its first suspension:        *)
(*   "continue"         route.continue() was called                        *)
(*   "condition-threw"  rule.condition raised: the exception left the      *)
(*                      handler and the route is unresolved                *)
(*   "delay"            counted, suspended in the artificial delay         *)
(*   "fulfill"          counted, route.fulfill() was called                *)
(*   "fulfill-threw"    counted, JSON.stringify raised: the exception left *)
(*                      the handler and the route is unresolved            *)
HandlerOutcome(rule, req, currentCount) ==
    IF BudgetExhausted(rule, currentCount) THEN "continue"
    ELSE IF MethodMismatch(rule, req) THEN "continue"
    ELSE IF rule.condition # Undefined /\ ConditionThrows(rule, req) THEN "condition-threw"
    ELSE IF ConditionRejects(rule, req) THEN "continue"
    ELSE IF TruthyNumber(rule.response.delay) THEN "delay"
    ELSE FulfillOutcome(rule)

CountedWhenFulfilled(outcome) == outcome = "fulfill"

(* line 575 is reached exactly when the three checks let the request by *)
Counted(outcome) == outcome \in {"delay", "fulfill", "fulfill-threw"}

IncrementFromZero(counts, id, currentCount) == MapSet(counts, id, 1)

(* line 575: this.requestCounts.set(id, currentCount + 1) *)
Increment(counts, id, currentCount) == MapSet(counts, id, currentCount + 1)

----------------------------------------------------------------------------
(* Inputs of the exploration *)

(* rules the test code registers *)
RuleBudgetDelay == MkRule(UrlX, Undefined, 1, Undefined, BodyObject, 100)
RuleMethodCond  == MkRule(UrlX, "post", NoNumber, CondSoapA, BodyString, 100)
RuleCondThrows  == MkRule(UrlX, Undefined, NoNumber, CondThrows, BodyObject, NoNumber)
RuleBudgetY     == MkRule(UrlY, "POST", 2, Undefined, BodyObject, NoNumber)
RuleCyclicY     == MkRule(UrlY, Undefined, NoNumber, Undefined, BodyCyclic, NoNumber)
RuleBareY       == MkRule(UrlY, Undefined, NoNumber, Undefined, BodyString, NoNumber)

(* <<id, rule>> of the addMockRule calls and the requests of the page, in  *)
(* the runs that register, re-register, remove and clear budgeted rules    *)
Registrations == ({"a"} \X {RuleBudgetDelay, RuleBudgetY})
                     \cup {<<"b", RuleBudgetY>>}

Requests == {MkRequest(UrlX, "POST", "A"), MkRequest(UrlY, "POST", "A")}

(* the same in the runs that exercise the handler's checks and failures *)
DispatchRules == {RuleMethodCond, RuleCondThrows, RuleCyclicY}

DispatchRequests ==
    {MkRequest(UrlX, "POST", "A"), MkRequest(UrlX, "GET", "A"),
     MkRequest(UrlX, "POST", "B"), MkRequest(UrlY, "POST", "A")}

(* the same in the runs that wait on a counter *)
WaitRules == {RuleBudgetDelay, RuleBudgetY}

WaitRequests == {MkRequest(UrlX, "POST", "A"), MkRequest(UrlY, "POST", "A")}

(* <<expectedCount, timeout>> of the waitForRequests calls *)
WaitArgs == {<<0, 0>>, <<1, 100>>, <<2, 200>>}

(* the arguments of the preset calls and the requests of the page, in the  *)
(* runs that register presets                                              *)
SoapCalls == {<<UrlX, "A", "<a/>">>, <<UrlX, "B", "<b/>">>}

EligibilityCalls == {<<"M1", TRUE>>, <<"M2", FALSE>>}

FileUploadCalls == {<<UrlY, TRUE>>, <<UrlY, FALSE>>}

(* the same in the runs that register the healthcare presets *)
ClaimsCalls == {<<"C1", "approved">>, <<"C2", "denied">>}

PaymentCalls == {<<"P1", TRUE>>, <<"P1", FALSE>>}

AuthCalls == {<<TRUE, "member">>, <<FALSE, "member">>}

ProviderSearchCalls == {0, 2}

PlanInfoCalls == {0, 2}

ErrorCalls == {<<UrlX, 500, "Internal Server Error">>,
               <<UrlX, 404, "Not Found">>}

HealthcareRequests ==
    {MkRequest(UrlClaims, "POST", "A"), MkRequest(UrlPayments, "POST", "A"),
     MkRequest(UrlAuth, "POST", "A"), MkRequest(UrlProviders, "GET", "A"),
     MkRequest(UrlPlans, "GET", "A"), MkRequest(UrlX, "GET", "A")}

(* the rules of the runs that register one id again and again *)
ReRegisterRules == {RuleBudgetDelay, RuleBudgetY, RuleCyclicY}

(* the rules of the runs with two instances on one page *)
PeerRules == {RuleBudgetDelay, RuleBudgetY, RuleBareY}

(* the rules of the runs that switch request logging on and off *)
LoggingRules == {RuleBudgetDelay, RuleBudgetY}

(* the same in the runs that register slow rules *)
SlowCalls == {<<UrlX, 100>>, <<UrlX, 200>>}

SlowRequests == {MkRequest(UrlX, "GET", "A"), MkRequest(UrlY, "GET", "A")}

(* the same in the runs that end with the scenario's teardown *)
TeardownWaitArgs == {<<1, 50>>, <<1, 200>>}

TeardownRequests ==
    {MkRequest(UrlEligibility, "POST", "A"),
     MkRequest(UrlEligibility, "GET", "A")}

PresetRequests ==
    {MkRequest(UrlX, "POST", "A"), MkRequest(UrlX, "POST", "B"),
     MkRequest(UrlX, "POST", "C"), MkRequest(UrlEligibility, "POST", "A"),
     MkRequest(UrlY, "POST", "A")}

----------------------------------------------------------------------------
(* Initial state: a fresh NetworkMockingUtils on a fresh page, lines 537-544 *)

NoWaiter == [id |-> Undefined, expectedCount |-> 0, timeout |-> 0,
             startTime |-> 0, wakeAt |-> 0]

NoResult == [status |-> "none", id |-> Undefined, expectedCount |-> 0,
             timeout |-> 0, startTime |-> 0, at |-> 0, got |-> 0]

Init ==
    /\ mockRules = [x \in {} |-> NoRule]
    /\ mockOrder = <<>>
    /\ requestCounts = EmptyMap
    /\ routes = <<>>
    /\ requests = <<>>
    /\ now = 0
    /\ pc = "idle"
    /\ waiter = NoWaiter
    /\ waitResult = NoResult
    /\ nextReg = 0
    /\ since = [id \in Ids \cup PresetIds |-> 0]
    /\ cleared = FALSE
    /\ context = "open"
    /\ removing = Undefined
    /\ thread = 0

----------------------------------------------------------------------------
RegisterCountKept(counts, id) ==
    IF id \in DOMAIN counts THEN counts ELSE MapSet(counts, id, 0)

(* line 551: this.requestCounts.set(id, 0) *)
RegisterCount(counts, id) == MapSet(counts, id, 0)

(* addMockRule, lines 549-593 *)

addMockRule(id, rule) ==
    /\ pc = "idle"
    /\ nextReg < MaxRegs
    /\ mockRules' = MapSet(mockRules, id, rule)
    /\ mockOrder' = IF id \in DOMAIN mockRules THEN mockOrder
                                                ELSE Append(mockOrder, id)
    /\ requestCounts' = RegisterCount(requestCounts, id)
    /\ routes' = <<[url |-> rule.url, id |-> id, rule |-> rule,
                    reg |-> nextReg + 1]>> \o routes
    /\ nextReg' = nextReg + 1
    /\ since' = [since EXCEPT ![id] = Len(requests)]
    /\ cleared' = FALSE
    /\ UNCHANGED <<requests, now, pc, waiter, waitResult, context, removing,
                   thread>>

(* A second NetworkMockingUtils instance created on the same page, as     *)
(* createNetworkMockingUtils(this.page) does on each call, lines 1006-1008 *)
(* and 537-544.  Its mockRules and requestCounts are Maps of its own; they *)
(* are kept in the same two functions under keys no id of the first        *)
(* instance equals, and its ids are not in mockOrder, the key order of the *)
(* first instance's Map.  Both instances call route on the one page.       *)
PeerKey(id) == "peer." \o id

PeerKeys == {PeerKey(id) : id \in Ids}

(* addMockRule, lines 549-593, called on the second instance *)
peerAddMockRule(id, rule) ==
    /\ pc = "idle"
    /\ nextReg < MaxRegs
    /\ mockRules' = MapSet(mockRules, PeerKey(id), rule)
    /\ requestCounts' = RegisterCount(requestCounts, PeerKey(id))
    /\ routes' = <<[url |-> rule.url, id |-> PeerKey(id), rule |-> rule,
                    reg |-> nextReg + 1]>> \o routes
    /\ nextReg' = nextReg + 1
    /\ UNCHANGED <<mockOrder, requests, now, pc, waiter, waitResult, since,
                   cleared, context, removing, thread>>

(* page.unroute(url): every installed handler with an equal pattern goes *)
Unroute(hooks, url) == SelectSeq(hooks, LAMBDA h : ~UrlMatchesEqual(h.url, url))

(* line 601, up to the await: page.unroute(rule.url) takes the handlers   *)
(* off the page at once; its promise settles when the page has answered    *)
UnrouteRule(id) == routes' = Unroute(routes, mockRules[id].url)

(* lines 602-603, run when the await of line 601 is over *)
DeleteRule(id) ==
    /\ mockRules' = MapDelete(mockRules, id)
    /\ mockOrder' = Without(mockOrder, id)
    /\ requestCounts' = MapDelete(requestCounts, id)
    /\ since' = [since EXCEPT ![id] = Len(requests)]

(* removeMockRule, lines 598-601: the call, up to its await; for an id     *)
(* that is not registered the call returns and changes nothing             *)
removeMockRule(id) ==
    /\ pc = "idle"
    /\ IF id \in DOMAIN mockRules
       THEN /\ UnrouteRule(id)
            /\ pc' = "removing"
            /\ removing' = id
       ELSE UNCHANGED <<routes, pc, removing>>
    /\ UNCHANGED <<mockRules, mockOrder, requestCounts, requests, now, waiter,
                   waitResult, nextReg, since, cleared, context,
                   thread>>

(* removeMockRule, lines 602-605: the page has answered, the call resumes, *)
(* deletes the two Map entries and returns                                 *)
RemoveResume ==
    /\ pc = "removing"
    /\ DeleteRule(removing)
    /\ pc' = "idle"
    /\ removing' = Undefined
    /\ UNCHANGED <<routes, requests, now, waiter, waitResult, nextReg,
                   cleared, context, thread>>

(* clearAllMockRules, lines 611-616.  The Map iterator yields the keys in  *)
(* insertion order.  The call runs into the removeMockRule of the first    *)
(* key up to the await of line 601; with no key it returns at once.        *)
clearAllMockRules ==
    /\ pc = "idle"
    /\ IF mockOrder = <<>>
       THEN /\ cleared' = TRUE
            /\ UNCHANGED <<routes, pc, removing>>
       ELSE /\ UnrouteRule(Head(mockOrder))
            /\ pc' = "clearing"
            /\ removing' = Head(mockOrder)
            /\ UNCHANGED cleared
    /\ UNCHANGED <<mockRules, mockOrder, requestCounts, requests, now, waiter,
                   waitResult, nextReg, since, context, thread>>

(* the page has answered: the removeMockRule the loop awaits deletes its   *)
(* entries and returns, and the loop goes on, without leaving the event    *)
(* loop, into the removeMockRule of the next key up to its await, or, with *)
(* no key left, to the return of line 615                                  *)
ClearStep ==
    /\ pc = "clearing"
    /\ DeleteRule(removing)
    /\ LET rest == Without(mockOrder, removing)
       IN IF rest = <<>>
          THEN /\ pc' = "idle"
               /\ removing' = Undefined
               /\ cleared' = TRUE
               /\ UNCHANGED routes
          ELSE /\ UnrouteRule(Head(rest))
               /\ pc' = "clearing"
               /\ removing' = Head(rest)
               /\ UNCHANGED cleared
    /\ UNCHANGED <<requests, now, waiter, waitResult, nextReg, context,
                   thread>>

----------------------------------------------------------------------------
(* The presets.  Each one builds its rule, the response body included, in  *)
(* the object literal it passes to addMockRule: new Date() and Date.now()  *)
(* in a body are evaluated during the preset call.  A pattern built by     *)
(* new RegExp(path) is named by its source.                                *)

(* the closure of lines 962-965 for a given soapAction *)
SoapCondition(soapAction) ==
    CASE soapAction = "A" -> CondSoapA
      [] soapAction = "B" -> CondSoapB

(* lines 959-973 *)
SoapRule(endpoint, soapAction, response) ==
    [url |-> endpoint, method |-> "POST", times |-> NoNumber,
     condition |-> SoapCondition(soapAction),
     response |-> [status |-> 200, headers |-> XmlHeaders,
                   body |-> [kind |-> "string", text |-> response,
                             timestamp |-> NoNumber],
                   delay |-> NoNumber]]

(* mockSOAPAPI, lines 958-974 *)
mockSOAPAPI(endpoint, soapAction, response) ==
    addMockRule("soap-" \o soapAction, SoapRule(endpoint, soapAction, response))

(* lines 626-657 *)
EligibilityRule(memberId, isEligible) ==
    [url |-> UrlEligibility, method |-> "POST", times |-> NoNumber,
     condition |-> Undefined,
     response |-> [status |-> 200, headers |-> NoHeaders,
                   body |-> [kind |-> "object",
                             text |-> memberId \o (IF isEligible
                                                   THEN ":eligible"
                                                   ELSE ":not-eligible"),
                             timestamp |-> now],
                   delay |-> NoNumber]]

(* mockEligibilityAPI, lines 625-658 *)
mockEligibilityAPI(memberId, isEligible) ==
    addMockRule("eligibility", EligibilityRule(memberId, isEligible))

(* a rule of a preset with a fixed pattern: no budget, no predicate, no    *)
(* headers, no delay; the body's timestamp and requestId are taken from    *)
(* the clock while the preset builds the rule                              *)
FixedPresetRule(url, method, status, text) ==
    [url |-> url, method |-> method, times |-> NoNumber,
     condition |-> Undefined,
     response |-> [status |-> status, headers |-> NoHeaders,
                   body |-> [kind |-> "object", text |-> text,
                             timestamp |-> now],
                   delay |-> NoNumber]]

(* lines 664-688 *)
ClaimsRule(claimId, status) ==
    FixedPresetRule(UrlClaims, "POST", 200, claimId \o ":" \o status)

(* mockClaimsAPI, lines 663-689 *)
mockClaimsAPI(claimId, status) ==
    addMockRule("claims", ClaimsRule(claimId, status))

(* lines 695-725 *)
PaymentRule(paymentId, success) ==
    FixedPresetRule(UrlPayments, "POST", IF success THEN 200 ELSE 400,
                    IF success THEN paymentId \o ":completed"
                               ELSE "PAYMENT_FAILED")

(* mockPaymentAPI, lines 694-726 *)
mockPaymentAPI(paymentId, success) ==
    addMockRule("payment", PaymentRule(paymentId, success))

(* lines 732-765 *)
AuthRule(success, role) ==
    FixedPresetRule(UrlAuth, "POST", IF success THEN 200 ELSE 401,
                    IF success THEN "test." \o role \o "@uhc.com"
                               ELSE "INVALID_CREDENTIALS")

(* mockAuthAPI, lines 731-766 *)
mockAuthAPI(success, role) == addMockRule("auth", AuthRule(success, role))

(* lines 772 and 815: providers.length > 0 ? providers : [one default] *)
DefaultedLength(n) == IF n > 0 THEN n ELSE 1

(* lines 791-808; the argument is the length of the list given *)
ProviderSearchRule(providers) ==
    FixedPresetRule(UrlProviders, "GET", 200,
                    "totalCount:" \o ToString(DefaultedLength(providers)))

(* mockProviderSearchAPI, lines 771-809 *)
mockProviderSearchAPI(providers) ==
    addMockRule("provider-search", ProviderSearchRule(providers))

(* lines 839-854; the argument is the length of the list given *)
PlanInfoRule(plans) ==
    FixedPresetRule(UrlPlans, "GET", 200,
                    "totalCount:" \o ToString(DefaultedLength(plans)))

(* mockPlanInfoAPI, lines 814-855 *)
mockPlanInfoAPI(plans) == addMockRule("plan-info", PlanInfoRule(plans))

(* lines 861-875 *)
ErrorRule(apiPath, errorCode, errorMessage) ==
    FixedPresetRule(apiPath, Undefined, errorCode,
                    ToString(errorCode) \o ":" \o errorMessage)

(* mockAPIError, lines 860-876 *)
mockAPIError(apiPath, errorCode, errorMessage) ==
    addMockRule("error-" \o apiPath,
                ErrorRule(apiPath, errorCode, errorMessage))

(* lines 882-894 *)
SlowRule(apiPath, delay) ==
    [url |-> apiPath, method |-> Undefined, times |-> NoNumber,
     condition |-> Undefined,
     response |-> [status |-> 200, headers |-> NoHeaders,
                   body |-> [kind |-> "object", text |-> "Slow response",
                             timestamp |-> now],
                   delay |-> delay]]

(* mockSlowAPI, lines 881-895 *)
mockSlowAPI(apiPath, delay) ==
    addMockRule("slow-" \o apiPath, SlowRule(apiPath, delay))

(* lines 980-1001 *)
FileUploadRule(uploadPath, success) ==
    [url |-> uploadPath, method |-> "POST", times |-> NoNumber,
     condition |-> Undefined,
     response |-> [status |-> IF success THEN 200 ELSE 400,
                   headers |-> NoHeaders,
                   body |-> IF success
                            THEN [kind |-> "object",
                                  text |-> "test-document.pdf",
                                  timestamp |-> now]
                            ELSE [kind |-> "object", text |-> "UPLOAD_FAILED",
                                  timestamp |-> NoNumber],
                   delay |-> NoNumber]]

(* mockFileUpload, lines 979-1002 *)
mockFileUpload(uploadPath, success) ==
    addMockRule("file-upload", FileUploadRule(uploadPath, success))

----------------------------------------------------------------------------
(* A request of the page: the router picks the handler, which runs up to   *)
(* its first suspension (lines 553-589)                                    *)

(* lines 902-920: the logging handler prints the request and calls         *)
(* route.continue()                                                        *)
LoggingOutcome(req) == "continue"

Dispatch(req) ==
    /\ Len(requests) < MaxRequests
    /\ LET hook == FirstMatch(routes, req.url)
           currentCount == getRequestCount(requestCounts, hook.id)
           outcome == IF hook.reg = 0 THEN "network"
                      ELSE IF hook = LoggingHook THEN LoggingOutcome(req)
                      ELSE HandlerOutcome(hook.rule, req, currentCount)
       IN /\ requestCounts' =
                IF Counted(outcome)
                THEN Increment(requestCounts, hook.id, currentCount)
                ELSE requestCounts
          /\ requests' = Append(requests,
                [req |-> req, hook |-> hook, outcome |-> outcome, at |-> now,
                 doneAt |-> IF outcome = "delay" THEN NoNumber ELSE now,
                 response |-> IF outcome = "fulfill"
                              THEN FulfillArgs(hook.rule.response)
                              ELSE NoResponse,
                 forwarded |-> IF outcome \in {"network", "continue"}
                               THEN Continue(req, NoOverrides)
                               ELSE NoRequest])
    /\ UNCHANGED <<mockRules, mockOrder, routes, now, pc, waiter, waitResult,
                   nextReg, since, cleared, context, removing,
                   thread>>

DelayElapsedAtOnce(e) == TRUE

(* line 579: the timer set for rule.response.delay ms at e.at has fired *)
DelayElapsed(e) == now >= e.at + e.hook.rule.response.delay

(* lines 578-589: the timer of the artificial delay has fired, the handler *)
(* resumes and fulfills                                                    *)
FinishDelay(i) ==
    /\ requests[i].outcome = "delay"
    /\ DelayElapsed(requests[i])
    /\ requests' = [requests EXCEPT
                      ![i].outcome = FulfillOutcome(requests[i].hook.rule),
                      ![i].doneAt = now,
                      ![i].response =
                          IF FulfillOutcome(requests[i].hook.rule) = "fulfill"
                          THEN FulfillArgs(requests[i].hook.rule.response)
                          ELSE NoResponse]
    /\ UNCHANGED <<mockRules, mockOrder, requestCounts, routes, now, pc, waiter,
                   waitResult, nextReg, since, cleared, context, removing,
                   thread>>

----------------------------------------------------------------------------
(* The JavaScript thread.  Handlers run on one thread, each in segments    *)
(* that run to completion: a segment starts when the event loop calls the  *)
(* handler or resumes it after an await, and ends at the next await, at a  *)
(* return or at a throw.  Dispatch above is HandlerEnter followed at once  *)
(* by HandlerRun; the two actions below keep the state in between, where   *)
(* the thread is held by the handler.                                      *)

(* line 553: the event loop is idle, the router picks the handler of the   *)
(* request and calls it; a request no handler matches goes to the network  *)
HandlerEnter(req) ==
    /\ Len(requests) < MaxRequests
    /\ thread = 0
    /\ LET hook == FirstMatch(routes, req.url)
       IN /\ requests' = Append(requests,
                [req |-> req, hook |-> hook,
                 outcome |-> IF hook.reg = 0 THEN "network" ELSE "running",
                 at |-> now,
                 doneAt |-> IF hook.reg = 0 THEN now ELSE NoNumber,
                 response |-> NoResponse,
                 forwarded |-> IF hook.reg = 0
                               THEN Continue(req, NoOverrides)
                               ELSE NoRequest])
          /\ thread' = IF hook.reg = 0 THEN 0 ELSE Len(requests) + 1
    /\ UNCHANGED <<mockRules, mockOrder, requestCounts, routes, now, pc, waiter,
                   waitResult, nextReg, since, cleared, context, removing>>

(* what the running handler does with its request in this segment *)
RunningOutcome(e) ==
    IF e.hook = LoggingHook THEN LoggingOutcome(e.req)
    ELSE HandlerOutcome(e.hook.rule, e.req,
                        getRequestCount(requestCounts, e.hook.id))

(* a delay that holds the thread: the handler spins until the clock has    *)
(* passed the delay and fulfills in the same segment                       *)
HandlerRunBlocking ==
    /\ thread # 0
    /\ LET e == requests[thread]
           currentCount == getRequestCount(requestCounts, e.hook.id)
           outcome == RunningOutcome(e)
           final == IF outcome = "delay" THEN FulfillOutcome(e.hook.rule)
                    ELSE outcome
       IN /\ outcome = "delay" => now >= e.at + e.hook.rule.response.delay
          /\ requestCounts' =
                IF Counted(outcome)
                THEN Increment(requestCounts, e.hook.id, currentCount)
                ELSE requestCounts
          /\ requests' = [requests EXCEPT ![thread] =
                [req |-> e.req, hook |-> e.hook, outcome |-> final,
                 at |-> e.at, doneAt |-> now,
                 response |-> IF final = "fulfill"
                              THEN FulfillArgs(e.hook.rule.response)
                              ELSE NoResponse,
                 forwarded |-> IF final = "continue"
                               THEN Continue(e.req, NoOverrides)
                               ELSE NoRequest]]
    /\ thread' = 0
    /\ UNCHANGED <<mockRules, mockOrder, routes, now, pc, waiter, waitResult,
                   nextReg, since, cleared, context, removing>>

(* lines 554-589: the handler runs from its call to the end of its first   *)
(* segment.  With a delay the segment ends at the await of line 579, which *)
(* sets the timer (at is the time it is set) and gives the thread back to  *)
(* the event loop; without one it ends in route.continue or route.fulfill  *)
HandlerRun ==
    /\ thread # 0
    /\ LET e == requests[thread]
           currentCount == getRequestCount(requestCounts, e.hook.id)
           outcome == RunningOutcome(e)
       IN /\ requestCounts' =
                IF Counted(outcome)
                THEN Increment(requestCounts, e.hook.id, currentCount)
                ELSE requestCounts
          /\ requests' = [requests EXCEPT ![thread] =
                [req |-> e.req, hook |-> e.hook, outcome |-> outcome,
                 at |-> now,
                 doneAt |-> IF outcome = "delay" THEN NoNumber ELSE now,
                 response |-> IF outcome = "fulfill"
                              THEN FulfillArgs(e.hook.rule.response)
                              ELSE NoResponse,
                 forwarded |-> IF outcome = "continue"
                               THEN Continue(e.req, NoOverrides)
                               ELSE NoRequest]]
    /\ thread' = 0
    /\ UNCHANGED <<mockRules, mockOrder, routes, now, pc, waiter, waitResult,
                   nextReg, since, cleared, context, removing>>

(* lines 578-589: the timer has fired and the event loop, idle, resumes    *)
(* the handler, which fulfills and ends                                    *)
TimerFires(i) ==
    /\ thread = 0
    /\ FinishDelay(i)

----------------------------------------------------------------------------
(* waitForRequests, lines 941-953 *)

(* line 944 *)
WithinTimeout(w) == now - w.startTime < w.timeout

(* line 946 *)
CountReached(w) == getRequestCount(requestCounts, w.id) >= w.expectedCount

WaitOutcomeExpected(w, status) ==
    [status |-> status, id |-> w.id, expectedCount |-> w.expectedCount,
     timeout |-> w.timeout, startTime |-> w.startTime, at |-> now,
     got |-> w.expectedCount]

(* the outcome of the call: its return, or the Error of line 952, whose    *)
(* message names expectedCount, id and getRequestCount(id) at the throw    *)
WaitOutcome(w, status) ==
    [status |-> status, id |-> w.id, expectedCount |-> w.expectedCount,
     timeout |-> w.timeout, startTime |-> w.startTime, at |-> now,
     got |-> getRequestCount(requestCounts, w.id)]

(* one evaluation of the loop condition and, inside the loop, of the body  *)
(* up to the await on the poll timer; outside it, the throw of line 952    *)
WaitIteration(w) ==
    IF WithinTimeout(w)
    THEN IF CountReached(w)
         THEN /\ pc' = "idle"
              /\ waiter' = NoWaiter
              /\ waitResult' = WaitOutcome(w, "returned")
         ELSE /\ pc' = "waiting"
              /\ waiter' = [w EXCEPT !.wakeAt = now + PollInterval]
              /\ waitResult' = NoResult
    ELSE /\ pc' = "idle"
         /\ waiter' = NoWaiter
         /\ waitResult' = WaitOutcome(w, "timeout")

waitForRequests(id, expectedCount, timeout) ==
    /\ pc = "idle"
    /\ WaitIteration([id |-> id, expectedCount |-> expectedCount,
                      timeout |-> timeout, startTime |-> now, wakeAt |-> now])
    /\ UNCHANGED <<mockRules, mockOrder, requestCounts, routes, requests, now,
                   nextReg, since, cleared, context, removing,
                   thread>>

(* the poll timer has fired *)
WaitWake ==
    /\ pc = "waiting"
    /\ now >= waiter.wakeAt
    /\ WaitIteration(waiter)
    /\ UNCHANGED <<mockRules, mockOrder, requestCounts, routes, requests, now,
                   nextReg, since, cleared, context, removing,
                   thread>>

----------------------------------------------------------------------------
(* enableRequestLogging, lines 900-922, and disableRequestLogging, lines   *)
(* 927-929                                                                 *)

LoggerCount == Len(SelectSeq(routes, LAMBDA h : h = LoggingHook))

enableRequestLogging ==
    /\ pc = "idle"
    /\ LoggerCount < MaxLoggers
    /\ routes' = <<LoggingHook>> \o routes
    /\ UNCHANGED <<mockRules, mockOrder, requestCounts, requests, now, pc,
                   waiter, waitResult, nextReg, since, cleared, context,
                   removing, thread>>

disableRequestLogging ==
    /\ pc = "idle"
    /\ routes' = Unroute(routes, GlobAll)
    /\ UNCHANGED <<mockRules, mockOrder, requestCounts, requests, now, pc,
                   waiter, waitResult, nextReg, since, cleared, context,
                   removing, thread>>

----------------------------------------------------------------------------
(* The After hook of the scenario, src/unnamed/part_007 lines 650-662: it  *)
(* closes the browser context (line 661) and calls nothing of the mocking  *)
(* utilities.  It runs when the scenario's last step has ended, or has     *)
(* been given up by the runner's step timeout while its promise, here a    *)
(* waitForRequests call, is still pending.                                 *)
After ==
    /\ context = "open"
    /\ pc \in {"idle", "waiting"}
    /\ context' = "closed"
    /\ UNCHANGED <<mockRules, mockOrder, requestCounts, routes, requests, now,
                   pc, waiter, waitResult, nextReg, since, cleared, removing,
                   thread>>

----------------------------------------------------------------------------
(* The clock: time passes between any two steps, in units of the poll     *)
(* interval                                                                *)

Tick ==
    /\ now < MaxTicks * PollInterval
    /\ now' = now + PollInterval
    /\ UNCHANGED <<mockRules, mockOrder, requestCounts, routes, requests, pc,
                   waiter, waitResult, nextReg, since, cleared, context,
                   removing, thread>>

----------------------------------------------------------------------------

(* Test code that registers, re-registers, removes and clears rules while  *)
(* the page issues requests                                                *)
Next ==
    \/ \E reg \in Registrations : addMockRule(reg[1], reg[2])
    \/ \E id \in Ids : removeMockRule(id)
    \/ RemoveResume
    \/ clearAllMockRules
    \/ ClearStep
    \/ \E req \in Requests : Dispatch(req)
    \/ \E i \in 1..Len(requests) : FinishDelay(i)
    \/ Tick

Spec == Init /\ [][Next]_vars

(* Test code that registers one id again and again, and removes it, while *)
(* the page issues requests                                                *)
NextReRegister ==
    \/ \E rule \in ReRegisterRules : addMockRule("a", rule)
    \/ removeMockRule("a")
    \/ RemoveResume
    \/ \E req \in Requests : Dispatch(req)
    \/ \E i \in 1..Len(requests) : FinishDelay(i)
    \/ Tick

SpecReRegister == Init /\ [][NextReRegister]_vars

(* Test code that registers the healthcare presets and the error preset    *)
(* while time passes and the page issues requests                          *)
NextHealthcare ==
    \/ \E c \in ClaimsCalls : mockClaimsAPI(c[1], c[2])
    \/ \E c \in PaymentCalls : mockPaymentAPI(c[1], c[2])
    \/ \E c \in AuthCalls : mockAuthAPI(c[1], c[2])
    \/ \E n \in ProviderSearchCalls : mockProviderSearchAPI(n)
    \/ \E n \in PlanInfoCalls : mockPlanInfoAPI(n)
    \/ \E c \in ErrorCalls : mockAPIError(c[1], c[2], c[3])
    \/ \E req \in HealthcareRequests : Dispatch(req)
    \/ Tick

SpecHealthcare == Init /\ [][NextHealthcare]_vars

(* Rules with a method filter, a predicate, a delay, a predicate that      *)
(* raises and a body that cannot be serialized, under requests that pass   *)
(* and fail each check                                                     *)
NextDispatch ==
    \/ \E rule \in DispatchRules : addMockRule("a", rule)
    \/ \E req \in DispatchRequests : Dispatch(req)
    \/ \E i \in 1..Len(requests) : FinishDelay(i)
    \/ Tick

SpecDispatch == Init /\ [][NextDispatch]_vars

(* Test code that registers rules and waits on their counters while the    *)
(* page issues requests                                                    *)
NextWait ==
    \/ \E rule \in WaitRules : addMockRule("a", rule)
    \/ \E req \in WaitRequests : Dispatch(req)
    \/ \E i \in 1..Len(requests) : FinishDelay(i)
    \/ \E args \in WaitArgs : waitForRequests("a", args[1], args[2])
    \/ WaitWake
    \/ Tick

SpecWait == Init /\ [][NextWait]_vars

(* Test code that registers presets, and one rule without a status, while  *)
(* the page issues requests                                                *)
NextPresets ==
    \/ \E c \in SoapCalls : mockSOAPAPI(c[1], c[2], c[3])
    \/ \E c \in EligibilityCalls : mockEligibilityAPI(c[1], c[2])
    \/ \E c \in FileUploadCalls : mockFileUpload(c[1], c[2])
    \/ addMockRule("a", RuleBareY)
    \/ \E req \in PresetRequests : Dispatch(req)

SpecPresets == Init /\ [][NextPresets]_vars

(* Two instances on one page: the first registers, removes and clears,    *)
(* the second registers, and the page issues requests                      *)
NextPeer ==
    \/ \E rule \in PeerRules : addMockRule("a", rule)
    \/ \E rule \in PeerRules : peerAddMockRule("a", rule)
    \/ removeMockRule("a")
    \/ RemoveResume
    \/ clearAllMockRules
    \/ ClearStep
    \/ \E req \in Requests : Dispatch(req)
    \/ \E i \in 1..Len(requests) : FinishDelay(i)
    \/ Tick

SpecPeer == Init /\ [][NextPeer]_vars

(* Test code that registers rules and switches request logging on and off *)
(* while the page issues requests                                          *)
NextLogging ==
    \/ \E rule \in LoggingRules : addMockRule("a", rule)
    \/ enableRequestLogging
    \/ disableRequestLogging
    \/ \E req \in Requests : Dispatch(req)
    \/ \E i \in 1..Len(requests) : FinishDelay(i)
    \/ Tick

SpecLogging == Init /\ [][NextLogging]_vars

(* Test code that registers slow rules while the page issues requests *)
NextSlow ==
    \/ \E c \in SlowCalls : mockSlowAPI(c[1], c[2])
    \/ \E req \in SlowRequests : Dispatch(req)
    \/ \E i \in 1..Len(requests) : FinishDelay(i)
    \/ Tick

SpecSlow == Init /\ [][NextSlow]_vars

(* The page issues requests to a slow rule and to a rule without delay;    *)
(* test code, handlers and timers share the one JavaScript thread          *)
NextLoop ==
    \/ thread = 0 /\ \E c \in SlowCalls : mockSlowAPI(c[1], c[2])
    \/ thread = 0 /\ addMockRule("a", RuleBareY)
    \/ \E req \in SlowRequests : HandlerEnter(req)
    \/ HandlerRun
    \/ \E i \in 1..Len(requests) : TimerFires(i)
    \/ Tick

SpecLoop == Init /\ [][NextLoop]_vars

(* A scenario: steps that register the eligibility mock and wait on its    *)
(* counter while the page issues requests, then the After hook; the page   *)
(* issues no request and the steps make no call once the context is closed *)
NextTeardown ==
    \/ /\ context = "open"
       /\ mockEligibilityAPI("M1", TRUE)
    \/ /\ context = "open"
       /\ \E req \in TeardownRequests : Dispatch(req)
    \/ /\ context = "open"
       /\ \E args \in TeardownWaitArgs :
             waitForRequests("eligibility", args[1], args[2])
    \/ WaitWake
    \/ Tick
    \/ After

SpecTeardown == Init /\ [][NextTeardown]_vars

----------------------------------------------------------------------------
(* Vocabulary of the properties *)

Entries == 1..Len(requests)

(* the step is a Dispatch, and NewEntry is the request it added *)
DispatchedNow == Len(requests') = Len(requests) + 1

NewEntry == requests'[Len(requests')]

(* the request was answered, or is being answered, by route.fulfill *)
TakenToFulfill(e) == e.outcome \in {"delay", "fulfill"}

(* rule.condition(request) returns true *)
ConditionTrue(rule, req) ==
    rule.condition # Undefined /\ ~ConditionThrows(rule, req)
        /\ ConditionValue(rule, req)

(* rule.condition(request) returns false *)
ConditionFalse(rule, req) ==
    rule.condition # Undefined /\ ~ConditionThrows(rule, req)
        /\ ~ConditionValue(rule, req)

(* the request passes the method check and the predicate check of the rule *)
PassesChecks(rule, req) ==
    /\ ~MethodMismatch(rule, req)
    /\ rule.condition # Undefined => ConditionTrue(rule, req)

(* how many of the first i requests went to registration reg and passed    *)
(* its method and predicate checks                                         *)
Rank(i, reg) ==
    Cardinality({j \in 1..i : /\ requests[j].hook.reg = reg
                              /\ PassesChecks(requests[j].hook.rule,
                                              requests[j].req)})

----------------------------------------------------------------------------
(* C1: for every rule registered with a call budget N > 0, of the requests *)
(* routed to it that pass the method and predicate checks exactly the      *)
(* first N are fulfilled, and every later one is passed through.           *)
C1_BudgetExactlyFirstN ==
    \A i \in Entries :
        LET e == requests[i]
            rule == e.hook.rule
        IN (e.hook.reg # 0 /\ TruthyNumber(rule.times)
                /\ PassesChecks(rule, e.req))
           => IF Rank(i, e.hook.reg) <= rule.times
              THEN TakenToFulfill(e)
              ELSE e.outcome = "continue"

----------------------------------------------------------------------------
(* C2, as stated: a request routed to a rule with a method filter whose    *)
(* method differs from the rule's method is passed through, and the        *)
(* counters are left as they were.                                         *)
C2_MethodDiffersLiterally ==
    [][(DispatchedNow /\ NewEntry.hook.reg # 0
            /\ TruthyString(NewEntry.hook.rule.method)
            /\ NewEntry.req.method # NewEntry.hook.rule.method)
        => (NewEntry.outcome = "continue" /\ requestCounts' = requestCounts)]_vars

(* C2, amended: a request routed to a rule with a method filter whose      *)
(* method differs from the rule's method in upper case is passed through,  *)
(* never fulfilled, and the counters are left as they were.                *)
C2_MethodFilter ==
    /\ [](\A i \in Entries :
            (requests[i].hook.reg # 0
                /\ TruthyString(requests[i].hook.rule.method)
                /\ requests[i].req.method
                     # ToUpperCase(requests[i].hook.rule.method))
            => requests[i].outcome = "continue")
    /\ [][(DispatchedNow /\ NewEntry.hook.reg # 0
            /\ TruthyString(NewEntry.hook.rule.method)
            /\ NewEntry.req.method # ToUpperCase(NewEntry.hook.rule.method))
          => (NewEntry.outcome = "continue"
                /\ requestCounts' = requestCounts)]_vars

(* a GET reached a rule registered for "post" and was passed through *)
C2_Witness ==
    \E i \in Entries :
        /\ requests[i].hook.rule.method = "post"
        /\ requests[i].req.method = "GET"
        /\ requests[i].outcome = "continue"

----------------------------------------------------------------------------
(* C3, as stated: a request routed to a rule with a predicate is fulfilled *)
(* if and only if the predicate evaluates true for it.                     *)
C3_FulfilledIffPredicate ==
    \A i \in Entries :
        (requests[i].hook.reg # 0
            /\ requests[i].hook.rule.condition # Undefined)
        => (TakenToFulfill(requests[i])
              <=> ConditionTrue(requests[i].hook.rule, requests[i].req))

(* C3, amended: a request routed to a rule with a predicate is fulfilled   *)
(* only if the predicate evaluates true for it; when the predicate is      *)
(* false the request is passed through and the counter is unchanged; when  *)
(* it is true the request is counted and taken to the fulfillment step     *)
(* exactly if it also passes the rule's budget and method checks, and is   *)
(* passed through otherwise.                                               *)
C3_Predicate ==
    /\ [](\A i \in Entries :
            (requests[i].hook.reg # 0
                /\ requests[i].hook.rule.condition # Undefined
                /\ TakenToFulfill(requests[i]))
            => ConditionTrue(requests[i].hook.rule, requests[i].req))
    /\ [][(DispatchedNow /\ NewEntry.hook.reg # 0)
          => LET rule == NewEntry.hook.rule
                 id == NewEntry.hook.id
                 before == getRequestCount(requestCounts, id)
             IN /\ ConditionFalse(rule, NewEntry.req)
                     => (NewEntry.outcome = "continue"
                            /\ requestCounts' = requestCounts)
                /\ ConditionTrue(rule, NewEntry.req)
                     => IF BudgetExhausted(rule, before)
                            \/ MethodMismatch(rule, NewEntry.req)
                        THEN NewEntry.outcome = "continue"
                                /\ requestCounts' = requestCounts
                        ELSE Counted(NewEntry.outcome)
                                /\ getRequestCount(requestCounts', id)
                                     = before + 1]_vars

(* the header predicate accepted one request and rejected another *)
C3_Witness ==
    /\ \E i \in Entries :
          /\ requests[i].hook.rule.condition = CondSoapA
          /\ requests[i].req.soapaction = "A"
          /\ requests[i].outcome = "fulfill"
    /\ \E i \in Entries :
          /\ requests[i].hook.rule.condition = CondSoapA
          /\ requests[i].req.soapaction = "B"
          /\ requests[i].outcome = "continue"

----------------------------------------------------------------------------
(* Counting from the history of requests *)

(* requests a handler of id has counted since the counter of id was last   *)
(* created or deleted                                                      *)
AcceptedIn(reqs, from, id) ==
    Cardinality({i \in 1..Len(reqs) : /\ i > from
                                      /\ reqs[i].hook.id = id
                                      /\ Counted(reqs[i].outcome)})

AcceptedSince(id) == AcceptedIn(requests, since[id], id)

(* requests a handler of id has fulfilled since then, before time t *)
FulfilledIn(reqs, from, id, t) ==
    Cardinality({i \in 1..Len(reqs) : /\ i > from
                                      /\ reqs[i].hook.id = id
                                      /\ reqs[i].outcome = "fulfill"
                                      /\ reqs[i].doneAt < t})

(* the step ends a waitForRequests call *)
WaitEndsNow == waitResult' # waitResult /\ waitResult'.status # "none"

----------------------------------------------------------------------------
(* C4: waitForRequests(id, k, t) returns if and only if k fulfillments of  *)
(* rule id have occurred within the timeout t, and fails with the timeout  *)
(* error otherwise, for every k >= 0 and t >= 0.                           *)
C4_WaitSucceedsIffFulfilled ==
    [][WaitEndsNow
        => (waitResult'.status = "returned"
              <=> FulfilledIn(requests', since'[waitResult'.id],
                              waitResult'.id,
                              waitResult'.startTime + waitResult'.timeout)
                    >= waitResult'.expectedCount)]_vars

----------------------------------------------------------------------------
(* C5, as stated: the timeout error carries an observed count equal to the *)
(* true fulfillment count of the rule at the moment of the timeout.        *)
C5_ObservedIsFulfilled ==
    [][(WaitEndsNow /\ waitResult'.status = "timeout")
        => waitResult'.got = FulfilledIn(requests', since'[waitResult'.id],
                                         waitResult'.id, now' + 1)]_vars

(* C5, amended: the timeout error carries the rule id, the expected count  *)
(* and an observed count equal to getRequestCount(id) at the moment of the *)
(* timeout, which is the number of requests the handlers of id have        *)
(* counted since the rule was registered, fulfilled already or not.        *)
C5_ObservedIsCounter ==
    [][(WaitEndsNow /\ waitResult'.status = "timeout")
        => /\ waitResult'.got = getRequestCount(requestCounts', waitResult'.id)
           /\ waitResult'.got = AcceptedIn(requests', since'[waitResult'.id],
                                           waitResult'.id)
           /\ pc = "waiting" => /\ waitResult'.id = waiter.id
                                /\ waitResult'.expectedCount
                                     = waiter.expectedCount]_vars

(* a wait for 2 requests timed out after exactly one was counted *)
C5_Witness ==
    /\ waitResult.status = "timeout"
    /\ waitResult.expectedCount = 2
    /\ waitResult.got = 1
    /\ waitResult.at >= waitResult.startTime + waitResult.timeout

----------------------------------------------------------------------------
(* C6: after clearAllMockRules has returned, every request is passed       *)
(* through, none is fulfilled by the engine, and getRequestCount is 0 for  *)
(* every id and stays 0 under later requests.                              *)
C6_AfterClearAll ==
    [][(cleared /\ DispatchedNow)
        => /\ NewEntry.outcome \in {"network", "continue"}
           /\ \A id \in Ids : getRequestCount(requestCounts', id) = 0]_vars

----------------------------------------------------------------------------
(* the step is an addMockRule call; the handler it installed is the head   *)
(* of the page's routes                                                    *)
RegisteredNow == nextReg' = nextReg + 1

(* C7: addMockRule with an id that already exists replaces the stored rule *)
(* by the new one, keeps one entry for the id, makes the new rule's        *)
(* handler the one its URL is routed to, and resets the counter of the id  *)
(* to 0 whatever its value was.                                            *)
C7_ReRegisterReplaces ==
    [][(RegisteredNow /\ Head(routes').id \in DOMAIN mockRules)
        => LET id == Head(routes').id
               rule == Head(routes').rule
           IN /\ mockRules'[id] = rule
              /\ DOMAIN mockRules' = DOMAIN mockRules
              /\ mockOrder' = mockOrder
              /\ FirstMatch(routes', rule.url).reg = nextReg'
              /\ requestCounts'[id] = 0
              /\ getRequestCount(requestCounts', id) = 0]_vars

(* id "a" was registered a second time, with another rule, after its       *)
(* counter had been incremented                                            *)
C7_Witness ==
    /\ Len(routes) = 2
    /\ routes[1].id = "a" /\ routes[2].id = "a"
    /\ routes[1].rule # routes[2].rule
    /\ mockRules["a"] = routes[1].rule
    /\ requestCounts["a"] = 0
    /\ \E i \in Entries : /\ i <= since["a"]
                          /\ requests[i].hook.reg = routes[2].reg
                          /\ Counted(requests[i].outcome)

----------------------------------------------------------------------------
(* C8: once removeMockRule(id) has removed a rule, no handler of the id is *)
(* installed and getRequestCount(id) is 0; for an id that is not           *)
(* registered getRequestCount(id) is 0.                                    *)
C8_RemovedIdCountsZero ==
    \A id \in Ids \ DOMAIN mockRules :
        getRequestCount(requestCounts, id) = 0

----------------------------------------------------------------------------
(* C9: no failure raised in the route handler, by the predicate or while   *)
(* the response is built, leaves the handler: the request is resolved as   *)
(* pass-through and never left unresolved.                                 *)
C9_NoErrorEscapes ==
    \A i \in Entries :
        requests[i].outcome \notin {"condition-threw", "fulfill-threw"}

----------------------------------------------------------------------------
(* the requests since the counter of id was created that went to a handler *)
(* of id and passed its method and predicate checks                        *)
MatchingSince(id) ==
    {i \in Entries : /\ i > since[id]
                     /\ requests[i].hook.id = id
                     /\ PassesChecks(requests[i].hook.rule, requests[i].req)}

(* every handler of id that has run since then belongs to a rule without a *)
(* budget                                                                  *)
NoBudgetSince(id) ==
    \A i \in Entries :
        (i > since[id] /\ requests[i].hook.id = id)
        => ~TruthyNumber(requests[i].hook.rule.times)

(* C10: no increment is lost: for a rule without a budget, after any       *)
(* interleaving of n matching requests, some suspended in the artificial   *)
(* delay while others arrive, getRequestCount(id) is n, none of them was   *)
(* passed through, and each one whose handler ran to its end was           *)
(* fulfilled.                                                              *)
C10_NoLostIncrement ==
    \A id \in Ids :
        NoBudgetSince(id)
        => /\ getRequestCount(requestCounts, id) = Cardinality(MatchingSince(id))
           /\ \A i \in MatchingSince(id) : Counted(requests[i].outcome)

(* two requests of one rule without a budget were in the delay together,   *)
(* both are fulfilled and the counter is 2                                 *)
C10_Witness ==
    \E i, j \in Entries :
        /\ i < j
        /\ requests[i].hook.reg = requests[j].hook.reg
        /\ requests[i].hook.reg # 0
        /\ ~TruthyNumber(requests[i].hook.rule.times)
        /\ requests[i].outcome = "fulfill" /\ requests[j].outcome = "fulfill"
        /\ requests[j].at < requests[i].doneAt
        /\ getRequestCount(requestCounts, requests[i].hook.id) = 2

----------------------------------------------------------------------------
(* both protocol-action rules are registered, on the endpoint of url *)
BothActionsOn(url) ==
    /\ {"soap-A", "soap-B"} \subseteq DOMAIN mockRules
    /\ mockRules["soap-A"].url = url
    /\ mockRules["soap-B"].url = url

(* C11: with the rules of mockSOAPAPI for the actions A and B registered   *)
(* on one endpoint, in either order, a POST to the endpoint that carries   *)
(* the header value A is fulfilled with the response of rule A, one that   *)
(* carries B with the response of rule B, and one that carries another     *)
(* value is passed through.                                                *)
C11_ActionRouting ==
    [][(DispatchedNow /\ BothActionsOn(NewEntry.req.url)
            /\ NewEntry.req.method = "POST")
        => CASE NewEntry.req.soapaction = "A" ->
                  /\ NewEntry.outcome = "fulfill"
                  /\ NewEntry.response
                        = FulfillArgs(mockRules["soap-A"].response)
             [] NewEntry.req.soapaction = "B" ->
                  /\ NewEntry.outcome = "fulfill"
                  /\ NewEntry.response
                        = FulfillArgs(mockRules["soap-B"].response)
             [] OTHER -> NewEntry.outcome \in {"network", "continue"}]_vars

----------------------------------------------------------------------------
(* the preset that registers under an id *)
PresetOf(id) ==
    CASE id \in {"soap-A", "soap-B"} -> "mockSOAPAPI"
      [] id = "eligibility" -> "mockEligibilityAPI"
      [] id = "file-upload" -> "mockFileUpload"
      [] id = "slow-" \o UrlX -> "mockSlowAPI"
      [] id = "claims" -> "mockClaimsAPI"
      [] id = "payment" -> "mockPaymentAPI"
      [] id = "auth" -> "mockAuthAPI"
      [] id = "provider-search" -> "mockProviderSearchAPI"
      [] id = "plan-info" -> "mockPlanInfoAPI"
      [] id = "error-" \o UrlX -> "mockAPIError"
      [] OTHER -> "addMockRule"

(* the registered rules an earlier call of the preset that acts in this    *)
(* step built from other arguments                                         *)
EarlierOfSamePreset ==
    {i \in 1..Len(routes) :
        /\ PresetOf(routes[i].id) = PresetOf(Head(routes').id)
        /\ PresetOf(routes[i].id) # "addMockRule"
        /\ routes[i].rule # Head(routes').rule
        /\ routes[i].id \in DOMAIN mockRules
        /\ mockRules[routes[i].id] = routes[i].rule}

(* C13: a second call of a preset with other arguments registers its rule  *)
(* under an id of its own, and leaves the rule of the first call           *)
(* registered with its response and its count as they were.                *)
C13_PresetsIndependent ==
    [][RegisteredNow
        => \A i \in EarlierOfSamePreset :
              LET id == routes[i].id
              IN /\ Head(routes').id # id
                 /\ id \in DOMAIN mockRules'
                 /\ mockRules'[id] = routes[i].rule
                 /\ requestCounts'[id] = requestCounts[id]]_vars

----------------------------------------------------------------------------
(* no rule that is registered has a pattern that matches url *)
NoRegisteredRuleMatches(url) ==
    \A id \in DOMAIN mockRules : ~Matches(mockRules[id].url, url)

(* C12: a request whose URL matches the pattern of no registered rule is   *)
(* not fulfilled and changes no counter; it, and every request a handler   *)
(* passes through, goes to the network with its URL, method and headers as *)
(* they were.                                                              *)
C12_UnmatchedPassesThrough ==
    [][DispatchedNow
        => /\ NoRegisteredRuleMatches(NewEntry.req.url)
                => /\ NewEntry.outcome \in {"network", "continue"}
                   /\ requestCounts' = requestCounts
           /\ NewEntry.outcome \in {"network", "continue"}
                => NewEntry.forwarded = NewEntry.req]_vars

----------------------------------------------------------------------------
(* C14: once the deadline of a waitForRequests call has passed, or the     *)
(* scenario's context has been closed, the call holds no pending poll      *)
(* timer and polls no more.                                                *)
C14_WaitAbandoned ==
    pc = "waiting"
    => /\ context = "open"
       /\ now <= waiter.startTime + waiter.timeout

----------------------------------------------------------------------------
(* C15: the browser context is never closed while a handler installed by   *)
(* addMockRule or by a preset is still installed.                          *)
C15_HooksGoneAtClose ==
    context = "closed" => routes = <<>>

----------------------------------------------------------------------------
(* the step resumes the handler of request i after its delay *)
ResumedNow(i) ==
    /\ i \in Entries
    /\ Len(requests') = Len(requests)
    /\ requests[i].outcome = "delay"
    /\ requests'[i].outcome # "delay"

(* C16: for a rule whose response has a delay d > 0, a request the rule    *)
(* accepts is counted when it is dispatched, is not fulfilled in that      *)
(* step, and is fulfilled, without another change of the counter, no       *)
(* earlier than d ms after it was dispatched.                              *)
C16_DelayThenFulfill ==
    /\ [](\A i \in Entries :
            (requests[i].hook.reg # 0
                /\ TruthyNumber(requests[i].hook.rule.response.delay)
                /\ requests[i].outcome = "fulfill")
            => requests[i].doneAt
                 >= requests[i].at + requests[i].hook.rule.response.delay)
    /\ [][(DispatchedNow /\ NewEntry.hook.reg # 0
            /\ TruthyNumber(NewEntry.hook.rule.response.delay)
            /\ Counted(NewEntry.outcome))
          => /\ NewEntry.outcome = "delay"
             /\ NewEntry.response = NoResponse
             /\ getRequestCount(requestCounts', NewEntry.hook.id)
                  = getRequestCount(requestCounts, NewEntry.hook.id) + 1]_vars
    /\ [][\A i \in Entries :
            ResumedNow(i)
            => /\ requestCounts' = requestCounts
               /\ now >= requests[i].at
                           + requests[i].hook.rule.response.delay]_vars

(* a request of a rule with a delay of 200 ms was counted, then fulfilled  *)
(* 200 ms after its dispatch or later                                      *)
C16_Witness ==
    \E i \in Entries :
        /\ requests[i].hook.rule.response.delay = 200
        /\ requests[i].outcome = "fulfill"
        /\ requests[i].doneAt >= requests[i].at + 200
        /\ getRequestCount(requestCounts, requests[i].hook.id) >= 1

----------------------------------------------------------------------------
(* the body a rule would give at time t: its time-varying fields hold the  *)
(* value for t                                                             *)
BodyAt(body, t) == [body EXCEPT !.timestamp = t]

(* C17: the time-varying fields of a body are computed when the request is *)
(* fulfilled: a fulfillment at time T carries the value for T.             *)
C17_TimeFieldsAtFulfillment ==
    \A i \in Entries :
        (requests[i].outcome = "fulfill"
            /\ requests[i].hook.rule.response.body.timestamp # NoNumber)
        => requests[i].response.body
             = BodyText(BodyAt(requests[i].hook.rule.response.body,
                               requests[i].doneAt))

----------------------------------------------------------------------------
(* C19: the response given to route.fulfill has the status of the response *)
(* spec when the spec has one and 200 when it has none, a string body as   *)
(* it was given, and an object body as its JSON text.                      *)
C19_StatusAndBody ==
    \A i \in Entries :
        requests[i].outcome = "fulfill"
        => LET given == requests[i].hook.rule.response
               built == requests[i].response
           IN /\ built.status = IF given.status # NoNumber THEN given.status
                                                           ELSE 200
              /\ given.body.kind = "string" => built.body = given.body.text
              /\ given.body.kind = "object"
                    => /\ built.body = JSONStringify(given.body)
                       /\ built.body # given.body.text

(* a spec with status 400 and an object body, and a spec with no status    *)
(* and a string body, were both fulfilled                                  *)
C19_Witness ==
    /\ \E i \in Entries :
          /\ requests[i].outcome = "fulfill"
          /\ requests[i].hook.rule.response.status = 400
          /\ requests[i].response.status = 400
          /\ requests[i].response.body = "{\"message\":\"UPLOAD_FAILED\"}"
    /\ \E i \in Entries :
          /\ requests[i].outcome = "fulfill"
          /\ requests[i].hook.rule.response.status = NoNumber
          /\ requests[i].response.status = 200
          /\ requests[i].hook.rule.response.body.kind = "string"
          /\ requests[i].response.body = "<ok/>"

----------------------------------------------------------------------------
(* the content-type header of a headers object, Undefined when it has none *)
ContentTypeOf(headers) ==
    IF "Content-Type" \in DOMAIN headers THEN headers["Content-Type"]
                                          ELSE Undefined

(* C20: the response given to route.fulfill has the caller's content-type  *)
(* header when the response spec has one, and an inferred content-type     *)
(* header when it has none.                                                *)
C20_ContentType ==
    \A i \in Entries :
        requests[i].outcome = "fulfill"
        => LET given == requests[i].hook.rule.response.headers
               built == requests[i].response.headers
           IN IF ContentTypeOf(given) # Undefined
              THEN ContentTypeOf(built) = ContentTypeOf(given)
              ELSE ContentTypeOf(built) # Undefined

----------------------------------------------------------------------------
(* a handler of a later registration of the hook's id is installed *)
Superseded(hook) ==
    \E k \in 1..Len(routes) : /\ routes[k].id = hook.id
                               /\ routes[k].reg > hook.reg

(* C21: once an id has been registered again, the handler of an earlier    *)
(* registration of the id accepts no request: it neither counts nor        *)
(* fulfills one, whatever URL pattern the earlier registration used.       *)
C21_OnlyLatestActive ==
    [][(DispatchedNow /\ NewEntry.hook.reg # 0 /\ Superseded(NewEntry.hook))
        => /\ ~TakenToFulfill(NewEntry)
           /\ requestCounts' = requestCounts]_vars

----------------------------------------------------------------------------
(* the handler accepted the request: it let it by the budget, method and   *)
(* predicate checks                                                        *)
Accepted(e) == e.outcome \in {"delay", "fulfill", "fulfill-threw"}

(* C22, as stated: getRequestCount(id) of a registered rule is the number  *)
(* of requests the rule has fulfilled since its registration; a request    *)
(* that was passed through, whose fulfillment failed or is still delayed   *)
(* is not counted.                                                         *)
C22_CountIsFulfilled ==
    \A id \in DOMAIN mockRules :
        getRequestCount(requestCounts, id)
          = FulfilledIn(requests, since[id], id, now + 1)

(* C22, amended: the counter of an id is incremented exactly once for      *)
(* every request a handler of the id accepts, in the step that dispatches  *)
(* it and before the delay and the fulfillment, and never otherwise:       *)
(* getRequestCount(id) is the number of requests accepted since the        *)
(* registration, fulfilled, still delayed or failed in the fulfillment; a  *)
(* request that is passed through is not counted and the end of a delay    *)
(* changes no counter.                                                     *)
C22_CountIsAccepted ==
    /\ [](\A id \in DOMAIN mockRules :
            getRequestCount(requestCounts, id)
              = Cardinality({i \in Entries : /\ i > since[id]
                                             /\ requests[i].hook.id = id
                                             /\ Accepted(requests[i])}))
    /\ [][DispatchedNow
          => IF NewEntry.hook.reg # 0 /\ Accepted(NewEntry)
             THEN requestCounts'
                    = MapSet(requestCounts, NewEntry.hook.id,
                             getRequestCount(requestCounts,
                                             NewEntry.hook.id) + 1)
             ELSE requestCounts' = requestCounts]_vars
    /\ [][(\E i \in Entries : ResumedNow(i))
          => requestCounts' = requestCounts]_vars

(* the counter is 2 while one accepted request is fulfilled and the other  *)
(* is still in its delay                                                   *)
C22_Witness ==
    /\ "a" \in DOMAIN mockRules
    /\ getRequestCount(requestCounts, "a") = 2
    /\ \E i, j \in Entries :
          /\ i > since["a"] /\ j > since["a"]
          /\ requests[i].outcome = "fulfill"
          /\ requests[j].outcome = "delay"

----------------------------------------------------------------------------
(* the handler of request i has a delay to serve and has not fulfilled:   *)
(* it is about to reach line 579 or is suspended there                     *)
DelayPending(i) ==
    \/ requests[i].outcome = "delay"
    \/ /\ requests[i].outcome = "running"
       /\ RunningOutcome(requests[i]) = "delay"

(* C23: the artificial delay is non-blocking.  While a request has a delay *)
(* pending the dispatcher is never stalled: the thread is idle and takes   *)
(* any next request, or it runs a handler that ends its segment without    *)
(* waiting for the clock; a request suspended in its delay does not hold   *)
(* the thread; and while a handler holds the thread no other handler's     *)
(* request or counter changes (bodies never interleave).                   *)
C23_DelayNonBlocking ==
    /\ [](\A i \in Entries :
             DelayPending(i) =>
                IF thread = 0
                THEN Len(requests) < MaxRequests
                        => \A req \in SlowRequests : ENABLED HandlerEnter(req)
                ELSE ENABLED HandlerRun)
    /\ [](\A i \in Entries : requests[i].outcome = "delay" => thread # i)
    /\ [][thread # 0
            => /\ thread' \in {0, thread}
               /\ Len(requests') = Len(requests)
               /\ \A i \in Entries : i # thread => requests'[i] = requests[i]
               /\ \A id \in DOMAIN requestCounts :
                     id # requests[thread].hook.id
                        => /\ id \in DOMAIN requestCounts'
                           /\ requestCounts'[id] = requestCounts[id]]_vars

(* a request is suspended in its delay while a request that arrived after  *)
(* it was dispatched to a rule, counted and fulfilled before the delay     *)
(* ends, and the thread is idle                                            *)
C23_Witness ==
    /\ thread = 0
    /\ \E i, j \in Entries :
          /\ i < j
          /\ requests[i].outcome = "delay"
          /\ requests[j].outcome = "fulfill"
          /\ requests[j].at >= requests[i].at
          /\ requests[j].doneAt <
                requests[i].at + requests[i].hook.rule.response.delay
          /\ getRequestCount(requestCounts, requests[j].hook.id) >= 1

----------------------------------------------------------------------------
(* the handler of the rule registered under id is installed *)
HookInstalled(hooks, rules, id) ==
    \E k \in 1..Len(hooks) : hooks[k].id = id /\ hooks[k].rule = rules[id]

(* the hook belongs to the registration that is current for its id *)
CurrentHook(hook) ==
    /\ hook.reg # 0
    /\ hook.id \in DOMAIN mockRules
    /\ mockRules[hook.id] = hook.rule
    /\ ~Superseded(hook)

(* the requests the registration reg had accepted before this step *)
AcceptedBy(reg) ==
    Cardinality({j \in Entries : /\ requests[j].hook.reg = reg
                                 /\ Accepted(requests[j])})

(* the ids that stay registered with the same rule over the step, which is *)
(* not a registration                                                      *)
StaysRegistered ==
    {id \in DOMAIN mockRules \cap DOMAIN mockRules' :
        mockRules'[id] = mockRules[id] /\ ~RegisteredNow}

(* C24: while a rule stays registered its counter does not decrease and    *)
(* its hook stays installed; a rule leaves the registry only in a step of  *)
(* removeMockRule or clearAllMockRules; and a request that passes the      *)
(* method and predicate checks of the current registration of an id with   *)
(* budget N is accepted while the registration has accepted fewer than N   *)
(* requests, and passed through once it has accepted N.                    *)
C24_Lifecycle ==
    [][/\ \A id \in StaysRegistered :
             /\ getRequestCount(requestCounts', id)
                  >= getRequestCount(requestCounts, id)
             /\ HookInstalled(routes, mockRules, id)
                  => HookInstalled(routes', mockRules', id)
       /\ (DOMAIN mockRules \ DOMAIN mockRules') # {}
             => (requests' = requests /\ nextReg' = nextReg /\ now' = now)
       /\ (DispatchedNow /\ CurrentHook(NewEntry.hook)
              /\ TruthyNumber(NewEntry.hook.rule.times)
              /\ PassesChecks(NewEntry.hook.rule, NewEntry.req))
             => IF AcceptedBy(NewEntry.hook.reg) < NewEntry.hook.rule.times
                THEN Accepted(NewEntry)
                ELSE NewEntry.outcome = "continue"]_vars

----------------------------------------------------------------------------
(* C25: in every state the ids that have a counter are the ids that have a *)
(* registered rule.                                                        *)
C25_CounterLivesWithRule ==
    DOMAIN requestCounts = DOMAIN mockRules

----------------------------------------------------------------------------
(* C27: a request handed to a rule's handler is resolved exactly once, by  *)
(* one call of route.continue or of route.fulfill, unless its handler is   *)
(* still suspended in the delay.                                           *)
Resolutions(e) ==
    CASE e.outcome \in {"continue", "fulfill"} -> 1
      [] OTHER -> 0

C27_ResolvedExactlyOnce ==
    \A i \in Entries :
        (requests[i].hook.reg # 0 /\ requests[i].outcome # "delay")
        => Resolutions(requests[i]) = 1

----------------------------------------------------------------------------
(* C28: the counter of a registered id whose current rule has a budget N   *)
(* is at most N.                                                           *)
C28_CountWithinBudget ==
    \A id \in DOMAIN mockRules :
        TruthyNumber(mockRules[id].times)
        => getRequestCount(requestCounts, id) <= mockRules[id].times

----------------------------------------------------------------------------
(* C29: a waitForRequests call that fails with the timeout error reports a *)
(* count below expectedCount.                                              *)
C29_TimeoutReportsLess ==
    [][(WaitEndsNow /\ waitResult'.status = "timeout")
        => waitResult'.got < waitResult'.expectedCount]_vars

----------------------------------------------------------------------------
(* the handlers addMockRule installed *)
RuleHooks(hooks) == SelectSeq(hooks, LAMBDA h : h.reg > 0)

(* what becomes of a request when no logging handler is installed *)
OutcomeWithoutLogging(req) ==
    LET hook == FirstMatch(RuleHooks(routes), req.url)
    IN IF hook.reg = 0 THEN "network"
       ELSE HandlerOutcome(hook.rule, req,
                           getRequestCount(requestCounts, hook.id))

(* C30: with request logging enabled, before or after the rules were       *)
(* registered, a request is fulfilled and counted exactly if it would be   *)
(* without logging, and by the same handler; enabling and disabling the    *)
(* logging remove no handler that addMockRule installed.                   *)
C30_LoggingTransparent ==
    [][/\ DispatchedNow
            => LET plain == FirstMatch(RuleHooks(routes), NewEntry.req.url)
                   expected == OutcomeWithoutLogging(NewEntry.req)
               IN /\ Accepted(NewEntry) <=> Counted(expected)
                  /\ Accepted(NewEntry) => NewEntry.hook = plain
                  /\ requestCounts'
                       = IF Counted(expected)
                         THEN MapSet(requestCounts, plain.id,
                                     getRequestCount(requestCounts,
                                                     plain.id) + 1)
                         ELSE requestCounts
       /\ ~RegisteredNow => RuleHooks(routes') = RuleHooks(routes)]_vars

----------------------------------------------------------------------------
(* the handlers, rules and counters of the second instance *)
PeerHooks(hooks) == SelectSeq(hooks, LAMBDA h : h.id \in PeerKeys)

PeerPart(map) == [k \in DOMAIN map \cap PeerKeys |-> map[k]]

(* the step is an operation of the second instance, or a request that one  *)
(* of its handlers took                                                    *)
PeerActs ==
    \/ nextReg' # nextReg /\ Head(routes').id \in PeerKeys
    \/ DispatchedNow /\ NewEntry.hook.id \in PeerKeys

(* C26: addMockRule, removeMockRule, clearAllMockRules and the requests    *)
(* handled by one NetworkMockingUtils instance leave the rules, the        *)
(* counters and the installed handlers of every other instance unchanged.  *)
C26_InstancesIndependent ==
    [][~PeerActs
         => /\ PeerPart(mockRules') = PeerPart(mockRules)
            /\ PeerPart(requestCounts') = PeerPart(requestCounts)
            /\ PeerHooks(routes') = PeerHooks(routes)]_vars

====
